---- MODULE Spec2Model ----
(***************************************************************************)
(* Voice-mapper: images + narration -> rendered video.                     *)
(*                                                                         *)
(* Three groups of state are modelled:                                     *)
(*   - the request pipeline of VideoController (validation, duration       *)
(*     estimate, the single ffmpeg encode with its event handlers, the     *)
(*     read-modify-write of output/mappings.json, getMappings);            *)
(*   - the progress handlers attached to an encode;                        *)
(*   - AudioUtils.concatenateAudioFiles.                                   *)
(* Spec and JobSpec run the pipeline (several concurrent jobs with a few   *)
(* requests / one job with every request), ProgressSpec the progress       *)
(* handlers, ConcatSpec the audio concatenation.                           *)
(***************************************************************************)
EXTENDS Integers, Sequences, FiniteSets, TLC

\* ------------------------------------------------------------- bounds
NumJobs == 2
MaxImages == 2

Jobs == 1..NumJobs

\* ------------------------------------------------ catalog (constants.js)
Unset == "unset"

VIDEO_TRANSITIONS ==
  {"fade", "crossfade", "wipeleft", "wiperight", "wipeup", "wipedown", "slideup",
   "slidedown", "slideleft", "slideright", "circlecrop", "rectcrop", "dissolve"}

VIDEO_MOTION_EFFECTS ==
  {"kenburns", "zoom_in", "zoom_out", "pan_left", "pan_right", "pan_up", "pan_down",
   "rotate_clockwise", "rotate_counter", "shake", "static"}

VIDEO_COLOR_EFFECTS ==
  {"vintage", "sepia", "black_white", "high_contrast", "low_contrast", "warm", "cool",
   "vibrant", "desaturated", "film_grain", "vignette"}

VIDEO_OVERLAY_EFFECTS ==
  {"particles", "light_leaks", "dust", "scratches", "bokeh", "lens_flare", "rain", "snow"}

\* overlay: null in the source is the absent value here
VIDEO_EFFECT_PRESETS ==
  [cinematic |-> [transition |-> "fade", motion |-> "kenburns", color |-> "vintage",
                  overlay |-> "light_leaks",
                  description |-> "Cinematic look with warm tones and subtle movement"],
   modern    |-> [transition |-> "crossfade", motion |-> "zoom_in",
                  color |-> "high_contrast", overlay |-> Unset,
                  description |-> "Clean modern style with sharp contrasts"],
   nostalgic |-> [transition |-> "dissolve", motion |-> "pan_right", color |-> "sepia",
                  overlay |-> "scratches",
                  description |-> "Vintage nostalgic feel with sepia tones"],
   dynamic   |-> [transition |-> "slideright", motion |-> "shake", color |-> "vibrant",
                  overlay |-> "particles",
                  description |-> "High-energy dynamic presentation"],
   minimal   |-> [transition |-> "fade", motion |-> "static", color |-> "black_white",
                  overlay |-> Unset,
                  description |-> "Clean minimal black and white style"],
   nature    |-> [transition |-> "wipeleft", motion |-> "zoom_out", color |-> "cool",
                  overlay |-> "bokeh",
                  description |-> "Natural outdoor feeling with cool tones"]]

PresetNames == DOMAIN VIDEO_EFFECT_PRESETS

\* presets[name] on an object literal also finds the members every object inherits
ObjectPrototypeKeys == {"constructor", "toString", "valueOf", "hasOwnProperty", "__proto__"}

EffectFields == {"transition", "motion", "color", "overlay"}

getAvailableEffects ==
  [transition |-> VIDEO_TRANSITIONS, motion |-> VIDEO_MOTION_EFFECTS,
   color |-> VIDEO_COLOR_EFFECTS, overlay |-> VIDEO_OVERLAY_EFFECTS]

\* an effects object without any key; `extra` stands for a key the code never names
NoEffects ==
  [transition |-> Unset, motion |-> Unset, color |-> Unset, overlay |-> Unset,
   transitionDuration |-> Unset, preset |-> Unset, description |-> Unset,
   extra |-> Unset]

\* a value the `x && ...` guards of validateEffects let through to the check
Truthy(v) == v # Unset /\ v # ""

\* presets[name] is truthy
PresetLookup(name) == name \in PresetNames \/ name \in ObjectPrototypeKeys

\* the fields of errors[] that validateEffects pushes
validateEffects(effects) ==
  {f \in EffectFields : Truthy(effects[f]) /\ effects[f] \notin getAvailableEffects[f]}
    \cup (IF Truthy(effects.preset) /\ ~PresetLookup(effects.preset) THEN {"preset"} ELSE {})

\* what applyPreset(name) returns where PresetLookup(name) (elsewhere it throws): an
\* inherited member has none of the fields, so they come out undefined
applyPreset(name) ==
  LET p == IF name \in PresetNames THEN VIDEO_EFFECT_PRESETS[name]
           ELSE [transition |-> Unset, motion |-> Unset, color |-> Unset,
                 overlay |-> Unset, description |-> Unset]
  IN  [transition |-> p.transition, motion |-> p.motion, color |-> p.color,
       overlay |-> p.overlay, transitionDuration |-> "0.8", preset |-> Unset,
       description |-> p.description, extra |-> Unset]

\* (ResolveEffects_PresetWins: a merge in which the preset's values come last)
ResolveEffects_PresetWins(effects) ==
  IF ~Truthy(effects.preset) THEN effects
  ELSE LET base == applyPreset(effects.preset)
       IN  [f \in DOMAIN NoEffects |->
              IF f = "preset" THEN Unset
              ELSE IF base[f] # Unset THEN base[f] ELSE effects[f]]

\* finalEffects of generateVideoWithEffects: {...applyPreset(preset), ...effects}, preset deleted
ResolveEffects(effects) ==
  IF ~Truthy(effects.preset) THEN effects
  ELSE LET base == applyPreset(effects.preset)
       IN  [f \in DOMAIN NoEffects |->
              IF f = "preset" THEN Unset
              ELSE IF effects[f] # Unset THEN effects[f] ELSE base[f]]

\* ------------------------------------------------------------ requests
\* What the upload collaborator hands the controller: the route taken, the parsed
\* effect options, the number of image paths, whether some image path / the audio
\* path does not exist on disk.
Request(path, effects, n, imagesExist, audioExists) ==
  [path |-> path, effects |-> effects, nImages |-> n, imagesExist |-> imagesExist,
   audioExists |-> audioExists]

NoRequest == Request("none", NoEffects, 0, TRUE, TRUE)

EffectInputs ==
  {NoEffects,
   [NoEffects EXCEPT !.transition = "wipeleft", !.color = "sepia"],
   [NoEffects EXCEPT !.preset = "cinematic"],
   [NoEffects EXCEPT !.preset = "modern", !.color = "sepia"],
   [NoEffects EXCEPT !.transition = "spin"],
   [NoEffects EXCEPT !.overlay = "fog"],
   [NoEffects EXCEPT !.preset = "retro"],
   [NoEffects EXCEPT !.preset = "constructor"],
   [NoEffects EXCEPT !.extra = "sparkle"]}

FileInputs ==
  {<<n, ie, ae>> \in (0..MaxImages) \X BOOLEAN \X BOOLEAN : n = 0 => ie}

Requests ==
  {Request("plain", NoEffects, f[1], f[2], f[3]) : f \in FileInputs}
    \cup {Request("effects", e, f[1], f[2], f[3]) : e \in EffectInputs, f \in FileInputs}

\* the requests of the concurrent specification: both routes with good files, and one
\* request that validation turns away
LightRequests ==
  {Request("plain", NoEffects, MaxImages, TRUE, TRUE),
   Request("effects", NoEffects, MaxImages, TRUE, TRUE),
   Request("plain", NoEffects, MaxImages, TRUE, FALSE)}

\* (validateVideoInputs_FilesOnly: a validation without the check for an empty list)
validateVideoInputs_FilesOnly(r) ==
  (IF ~r.imagesExist THEN {"image"} ELSE {})
    \cup (IF ~r.audioExists THEN {"audio"} ELSE {})

\* errors[] of VideoUtils.validateVideoInputs
validateVideoInputs(r) ==
  (IF ~r.imagesExist THEN {"image"} ELSE {})
    \cup (IF ~r.audioExists THEN {"audio"} ELSE {})
    \cup (IF r.nImages = 0 THEN {"empty"} ELSE {})


\* ------------------------------------------------ the ledger file's content
\* output/mappings.json: absent, a text JSON.parse rejects (empty or damaged), or
\* the JSON text of a list of entries
Absent == [kind |-> "absent", val |-> <<>>]
EmptyText == [kind |-> "empty", val |-> <<>>]
Garbage == [kind |-> "garbage", val |-> <<>>]

\* JSON.stringify(mappings, null, 2)
JSONstringify(list) == [kind |-> "json", val |-> list]

\* JSON.parse(data): the list, or a SyntaxError
JSONparse(data) ==
  IF data.kind = "json" THEN [ok |-> TRUE, val |-> data.val] ELSE [ok |-> FALSE, val |-> <<>>]

\* fs.pathExists(mappingsFile)
pathExists(file) == file.kind # "absent"

InitialFiles == {Absent, EmptyText, Garbage}

\* ------------------------------------------------------------ variables
VARIABLES
  req,           \* job -> the request it is serving (NoRequest before it arrives)
  pc,            \* job -> where its handler is suspended
  audioDuration, \* job -> result of estimateAudioDuration (0 before)
  promise,       \* job -> state of the promise createVideoWith... returned
  eng,           \* job -> what the ffmpeg process of the job has emitted so far
  cmd,           \* job -> output options of the command that was run
  response,      \* job -> what ResponseUtils.send was given
  local,         \* job -> `mappings` of saveMappingInfo after the push
  estimates,     \* job -> ffprobe calls made
  compiled,      \* job -> filter graphs built
  runs,          \* job -> command.run() calls
  wrote,         \* job -> fs.writeFile calls on the ledger completed
  sent,          \* job -> ResponseUtils.send calls
  settles,       \* job -> times the promise changed state
  mappingsFile,  \* content of output/mappings.json
  initFile,      \* its content when the server started
  appendLog,     \* entries in the order their saveMappingInfo completed
  overlap,       \* some saveMappingInfo began while another was in progress
  listPc,        \* where getMappings is suspended
  listResult,    \* what getMappings answered
  listLog        \* appendLog when getMappings read the file

VARIABLES
  pHandler,      \* which progress handler is attached
  pTotal,        \* totalDuration the handler closes over
  pReported      \* the percentages it reported, in order

VARIABLES
  cInputs,       \* audioPaths: kind of each file
  cPc,           \* where concatenateAudioFiles is suspended
  cI,            \* loop index i
  cTmpDir,       \* tmpDir exists
  cTmpFiles,     \* files inside tmpDir
  cWav,          \* wavFiles
  cInFlight,     \* ffmpeg processes of this call now running
  cOutput,       \* outputPath exists
  cOutcome,      \* what the try block ended with, held while finally runs
  cResult        \* what the call returned or threw

VARIABLES
  uCall,         \* which utility function is being called on its own
  uIn,           \* its arguments
  uOut           \* what it returned or threw

VARIABLES
  now,           \* the reading of Date.now(), in milliseconds
  mappingId      \* job -> the id it gave its mapping (0 before)

jvars == <<req, pc, audioDuration, promise, eng, cmd, response, local, estimates,
           compiled, runs, wrote, sent, settles>>
lvars == <<mappingsFile, initFile, appendLog, overlap, listPc, listResult, listLog>>
pvars == <<pHandler, pTotal, pReported>>
cvars == <<cInputs, cPc, cI, cTmpDir, cTmpFiles, cWav, cInFlight, cOutput, cOutcome, cResult>>
uvars == <<uCall, uIn, uOut>>
kvars == <<now, mappingId>>
vars == <<jvars, lvars, pvars, cvars, uvars, kvars>>


\* ------------------------------------------------------ pipeline: helpers
FallbackDuration == 60
ProbedDuration == 30

NoCmd == [video |-> {}, audio |-> {}, shortest |-> FALSE, limitT |-> FALSE]
NoResponse == [kind |-> "none", originalError |-> <<>>]
validationError == [kind |-> "validationError", originalError |-> <<>>]
success == [kind |-> "success", originalError |-> <<>>]
error(text) == [kind |-> "error", originalError |-> text]

EngineErrors == {"ffmpeg exited with code 1"}

\* .outputOptions of createVideoWithImages: -map [outv], -map n:a, ..., -t totalDuration
createVideoWithImagesOptions(n) ==
  [video |-> {"outv"}, audio |-> {n}, shortest |-> FALSE, limitT |-> TRUE]

\* complexFilter(videoFilters, ["outv"]) and .outputOptions of createVideoWithEffects:
\* -map n:a, ..., -shortest
createVideoWithEffectsOptions(n) ==
  [video |-> {"outv"}, audio |-> {n}, shortest |-> TRUE, limitT |-> FALSE]

\* the mapping object a job builds after its encode (the job stands for the output
\* filename, which is unique to it)
Entry(j) ==
  [job |-> j, type |-> req[j].path, effects |-> ResolveEffects(req[j].effects),
   totalImages |-> req[j].nImages, duration |-> audioDuration[j], id |-> mappingId[j]]

\* resolve() / reject(err) of a promise: only a pending promise changes state
\* (Resolve_Unguarded: a promise that resolve() could settle a second time)
Resolve_Unguarded(p) == "fulfilled"
Resolve(p) == IF p = "pending" THEN "fulfilled" ELSE p
Reject(p) == IF p = "pending" THEN "rejected" ELSE p

\* command.run() is called once for the whole job
\* (RunCount_PerSegment: one run per image segment instead)
RunCount_PerSegment(n) == n
RunCount(n) == 1

\* mappings.push(mapping)
\* (push_Replace: the list replaced by the new entry instead)
push_Replace(list, e) == <<e>>
push(list, e) == Append(list, e)

InAppend(j) == pc[j] \in {"appendExists", "appendRead", "appendWrite"}

\* what a send does to the job: the handler returns
Send(j, r) ==
  /\ response' = [response EXCEPT ![j] = r]
  /\ sent' = [sent EXCEPT ![j] = @ + 1]

\* the code after `await this.createVideoWith...` when the promise is fulfilled, up
\* to the first await of saveMappingInfo (fs.pathExists)
awaitFulfilled(j) ==
  /\ mappingId' = [mappingId EXCEPT ![j] = now]
  /\ pc' = [pc EXCEPT ![j] = "appendExists"]
  /\ overlap' = (overlap \/ \E k \in Jobs \ {j} : InAppend(k))
  /\ UNCHANGED <<response, sent>>

\* the catch block of generateVideo / generateVideoWithEffects
\* (awaitRejected_SavesEntry: a catch block that went on to saveMappingInfo instead)
awaitRejected_SavesEntry(j, text) ==
  /\ pc' = [pc EXCEPT ![j] = "appendExists"]
  /\ overlap' = (overlap \/ \E k \in Jobs \ {j} : InAppend(k))
  /\ UNCHANGED <<response, sent>>
awaitRejected(j, text) ==
  /\ pc' = [pc EXCEPT ![j] = "done"]
  /\ Send(j, error(text))
  /\ UNCHANGED overlap

\* ------------------------------------------------------ pipeline: actions
\* generateVideo, lines 41-56: up to the await of validateVideoInputs
generateVideo(j, r) ==
  /\ pc[j] = "idle" /\ r.path = "plain"
  /\ req' = [req EXCEPT ![j] = r]
  /\ pc' = [pc EXCEPT ![j] = "validating"]
  /\ UNCHANGED <<audioDuration, promise, eng, cmd, response, local, estimates, compiled,
                 runs, wrote, sent, settles, lvars, pvars, cvars, uvars, kvars>>

\* generateVideoWithEffects, lines 357-389: validateEffects, applyPreset, up to the
\* await of validateVideoInputs
generateVideoWithEffects(j, r) ==
  /\ pc[j] = "idle" /\ r.path = "effects"
  /\ req' = [req EXCEPT ![j] = r]
  /\ IF validateEffects(r.effects) # {}
     THEN /\ pc' = [pc EXCEPT ![j] = "done"]
          /\ Send(j, validationError)
     ELSE /\ pc' = [pc EXCEPT ![j] = "validating"]
          /\ UNCHANGED <<response, sent>>
  /\ UNCHANGED <<audioDuration, promise, eng, cmd, local, estimates, compiled,
                 runs, wrote, settles, lvars, pvars, cvars, uvars, kvars>>

\* validateVideoInputs has answered: a validation error, or the ffprobe of
\* estimateAudioDuration is started (lines 58-69, 391-402)
InputsValidated(j) ==
  /\ pc[j] = "validating"
  /\ IF validateVideoInputs(req[j]) # {}
     THEN /\ pc' = [pc EXCEPT ![j] = "done"]
          /\ Send(j, validationError)
          /\ UNCHANGED estimates
     ELSE /\ pc' = [pc EXCEPT ![j] = "estimating"]
          /\ estimates' = [estimates EXCEPT ![j] = @ + 1]
          /\ UNCHANGED <<response, sent>>
  /\ UNCHANGED <<req, audioDuration, promise, eng, cmd, local, compiled, runs, wrote,
                 settles, lvars, pvars, cvars, uvars, kvars>>

\* ffprobe has answered (probed: it gave a duration; otherwise the fallback of 60);
\* then lines 72-86 / 405-418: the command is built and run, the promise is pending
DurationEstimated(j, probed) ==
  /\ pc[j] = "estimating"
  /\ audioDuration' = [audioDuration EXCEPT ![j] =
                         IF probed THEN ProbedDuration ELSE FallbackDuration]
  /\ cmd' = [cmd EXCEPT ![j] =
               IF req[j].path = "plain" THEN createVideoWithImagesOptions(req[j].nImages)
               ELSE createVideoWithEffectsOptions(req[j].nImages)]
  /\ compiled' = [compiled EXCEPT ![j] = @ + 1]
  /\ runs' = [runs EXCEPT ![j] = @ + RunCount(req[j].nImages)]
  /\ promise' = [promise EXCEPT ![j] = "pending"]
  /\ eng' = [eng EXCEPT ![j] = "spawning"]
  /\ pc' = [pc EXCEPT ![j] = "encoding"]
  /\ UNCHANGED <<req, response, local, estimates, wrote, sent, settles, lvars, pvars, cvars, uvars, kvars>>

\* the "start" handler: logs the command line
EngineStart(j) ==
  /\ eng[j] = "spawning"
  /\ eng' = [eng EXCEPT ![j] = "started"]
  /\ UNCHANGED <<req, pc, audioDuration, promise, cmd, response, local, estimates,
                 compiled, runs, wrote, sent, settles, lvars, pvars, cvars, uvars, kvars>>

\* the "progress" handler: logs a percentage (its value is the subject of ProgressSpec)
EngineProgress(j) ==
  /\ eng[j] \in {"started", "reporting"}
  /\ eng' = [eng EXCEPT ![j] = "reporting"]
  /\ UNCHANGED <<req, pc, audioDuration, promise, cmd, response, local, estimates,
                 compiled, runs, wrote, sent, settles, lvars, pvars, cvars, uvars, kvars>>

\* the "end" handler: resolve(); a fulfilled promise resumes the job after its await
EngineEnd(j) ==
  /\ eng[j] \in {"started", "reporting", "errored"}
  /\ eng' = [eng EXCEPT ![j] = IF @ = "errored" THEN "both" ELSE "ended"]
  /\ promise' = [promise EXCEPT ![j] = Resolve(@)]
  /\ settles' = [settles EXCEPT ![j] = IF promise'[j] # promise[j] THEN @ + 1 ELSE @]
  /\ IF promise[j] = "pending"
     THEN awaitFulfilled(j)
     ELSE UNCHANGED <<pc, overlap, response, sent, mappingId>>
  /\ UNCHANGED <<req, audioDuration, cmd, local, estimates, compiled, runs, wrote,
                 mappingsFile, initFile, appendLog, listPc, listResult, listLog,
                 pvars, cvars, uvars, now>>

\* the "error" handler: reject(err) (the effects route wraps the message); a rejected
\* promise resumes the job in its catch block
EngineError(j, msg) ==
  /\ eng[j] \in {"spawning", "started", "reporting", "ended"}
  /\ eng' = [eng EXCEPT ![j] = IF @ = "ended" THEN "both" ELSE "errored"]
  /\ promise' = [promise EXCEPT ![j] = Reject(@)]
  /\ settles' = [settles EXCEPT ![j] = IF promise'[j] # promise[j] THEN @ + 1 ELSE @]
  /\ IF promise[j] = "pending"
     THEN awaitRejected(j, IF req[j].path = "plain" THEN <<msg>>
                           ELSE <<"Video generation failed: ", msg>>)
     ELSE UNCHANGED <<pc, overlap, response, sent>>
  /\ UNCHANGED <<req, audioDuration, cmd, local, estimates, compiled, runs, wrote,
                 mappingsFile, initFile, appendLog, listPc, listResult, listLog,
                 pvars, cvars, uvars, kvars>>

\* saveMappingInfo, line 244: pathExists has answered; without a file the push and
\* the writeFile call follow at once
AppendExists(j) ==
  /\ pc[j] = "appendExists"
  /\ IF pathExists(mappingsFile)
     THEN /\ pc' = [pc EXCEPT ![j] = "appendRead"]
          /\ UNCHANGED local
     ELSE /\ pc' = [pc EXCEPT ![j] = "appendWrite"]
          /\ local' = [local EXCEPT ![j] = push(<<>>, Entry(j))]
  /\ UNCHANGED <<req, audioDuration, promise, eng, cmd, response, estimates, compiled,
                 runs, wrote, sent, settles, lvars, pvars, cvars, uvars, kvars>>

\* (AppendRead_NoCatch: a read whose JSON.parse error left saveMappingInfo instead,
\* ending the job in the catch block of its handler)
AppendRead_NoCatch(j) ==
  /\ pc[j] = "appendRead"
  /\ LET parsed == JSONparse(mappingsFile)
     IN  IF parsed.ok
         THEN /\ local' = [local EXCEPT ![j] = push(parsed.val, Entry(j))]
              /\ pc' = [pc EXCEPT ![j] = "appendWrite"]
              /\ UNCHANGED <<response, sent>>
         ELSE /\ pc' = [pc EXCEPT ![j] = "done"]
              /\ Send(j, error(<<"SyntaxError">>))
              /\ UNCHANGED local
  /\ UNCHANGED <<req, audioDuration, promise, eng, cmd, estimates, compiled,
                 runs, wrote, settles, lvars, pvars, cvars, uvars, kvars>>

\* lines 245-253: readFile has answered; JSON.parse, whose error the catch swallows
\* leaving mappings = []; the push; the writeFile call
AppendRead(j) ==
  /\ pc[j] = "appendRead"
  /\ LET parsed == JSONparse(mappingsFile)
     IN  local' = [local EXCEPT ![j] =
                     push(IF parsed.ok THEN parsed.val ELSE <<>>, Entry(j))]
  /\ pc' = [pc EXCEPT ![j] = "appendWrite"]
  /\ UNCHANGED <<req, audioDuration, promise, eng, cmd, response, estimates, compiled,
                 runs, wrote, sent, settles, lvars, pvars, cvars, uvars, kvars>>

\* line 254: writeFile has replaced the file; saveMappingInfo returns and the job
\* sends its success result (lines 119-131, 456-469)
AppendWrite(j) ==
  /\ pc[j] = "appendWrite"
  /\ mappingsFile' = JSONstringify(local[j])
  /\ wrote' = [wrote EXCEPT ![j] = @ + 1]
  /\ appendLog' = Append(appendLog, Entry(j))
  /\ pc' = [pc EXCEPT ![j] = "done"]
  /\ Send(j, success)
  /\ UNCHANGED <<req, audioDuration, promise, eng, cmd, local, estimates, compiled,
                 runs, settles, initFile, overlap, listPc, listResult, listLog,
                 pvars, cvars, uvars, kvars>>

\* getMappings, lines 329-344: fileExists has answered; without a file the answer is []
ListExists ==
  /\ listPc = "idle"
  /\ IF pathExists(mappingsFile)
     THEN /\ listPc' = "reading"
          /\ listResult' = [kind |-> "none", mappings |-> <<>>]
          /\ UNCHANGED listLog
     ELSE /\ listPc' = "done"
          /\ listResult' = [kind |-> "success", mappings |-> <<>>]
          /\ listLog' = appendLog
  /\ UNCHANGED <<jvars, mappingsFile, initFile, appendLog, overlap, pvars, cvars, uvars, kvars>>

\* lines 333-351: readFile has answered; JSON.parse; the list, or the 500 of the catch
ListRead ==
  /\ listPc = "reading"
  /\ LET parsed == JSONparse(mappingsFile)
     IN  listResult' = IF parsed.ok THEN [kind |-> "success", mappings |-> parsed.val]
                       ELSE [kind |-> "error", mappings |-> <<>>]
  /\ listLog' = appendLog
  /\ listPc' = "done"
  /\ UNCHANGED <<jvars, mappingsFile, initFile, appendLog, overlap, pvars, cvars, uvars, kvars>>


\* ------------------------------------------------------ progress handlers
MaxReports == 2

\* JavaScript numbers as far as the handlers tell them apart
Num(n) == [t |-> "number", v |-> n]
NaN == [t |-> "NaN", v |-> 0]
Undefined == [t |-> "undefined", v |-> 0]

\* progress.timemark: undefined, or a text cut at its colons into parts, each a
\* number text (n: whole seconds) or not
Part(n) == [num |-> TRUE, v |-> n]
NotANumber == [num |-> FALSE, v |-> 0]
TmUndefined == [kind |-> "undefined", parts |-> <<>>]
Tm(parts) == [kind |-> "string", parts |-> parts]

Timemarks ==
  {TmUndefined,
   Tm(<<>>),                   \* ""
   Tm(<<NotANumber>>),                  \* "N/A"
   Tm(<<Part(0), Part(0), Part(5)>>),   \* "00:00:05"
   Tm(<<Part(0), Part(0), Part(10)>>),  \* "00:00:10"
   Tm(<<Part(0), Part(0), Part(30)>>),  \* "00:00:30"
   Tm(<<Part(0), Part(1), Part(30)>>),  \* "00:01:30"
   Tm(<<Part(0), Part(30)>>),        \* "00:30"
   Tm(<<Part(0), NotANumber, Part(10)>>)}     \* "00:xx:10"

\* progress.percent as fluent-ffmpeg computes it from the inputs' durations
EnginePercents == {Undefined, Num(0), Num(40), Num(100), Num(250)}

TotalDurations == {0, 20, FallbackDuration}

\* Math.round(p / q) for q > 0
MathRound(p, q) == (2 * p + q) \div (2 * q)

Min(a, b) == IF a < b THEN a ELSE b

\* `progress.timemark` in a condition
TimemarkTruthy(tm) == tm.kind = "string" /\ tm.parts # <<>>

\* parseFloat(part) || 0
parseFloatOr0(part) == IF part.num THEN part.v ELSE 0

\* VideoUtils.parseTimemark
parseTimemark(tm) ==
  IF ~TimemarkTruthy(tm) THEN 0
  ELSE IF Len(tm.parts) # 3 THEN 0
  ELSE parseFloatOr0(tm.parts[1]) * 3600 + parseFloatOr0(tm.parts[2]) * 60
         + parseFloatOr0(tm.parts[3])

\* the number a text becomes when it is divided: "" is 0, one number text is that
\* number, anything else (a colon, undefined) is NaN
ToNumber(tm) ==
  IF tm.kind = "undefined" THEN NaN
  ELSE IF tm.parts = <<>> THEN Num(0)
  ELSE IF Len(tm.parts) = 1 /\ tm.parts[1].num THEN Num(tm.parts[1].v)
  ELSE NaN

\* the "progress" handler of createVideoWithImages: the percentage it logs
imagesProgress(progress, totalDuration) ==
  IF TimemarkTruthy(progress.timemark) /\ totalDuration > 0
  THEN Num(Min(MathRound(parseTimemark(progress.timemark) * 100, totalDuration), 100))
  ELSE Num(0)

\* the "progress" handler of createVideoWithEffectsInternal: logs progress.percent
effectsProgress(progress, totalDuration) == progress.percent

\* VideoUtils.createProgressCallback: the percentage handed to onProgress
createProgressCallback(progress, totalDuration) ==
  IF totalDuration > 0
  THEN LET x == ToNumber(progress.timemark)
       IN  IF x.t = "number" THEN Num(MathRound(x.v * 100, totalDuration)) ELSE NaN
  ELSE Num(0)

Handlers == {"images", "effects", "callback"}

Reported(handler, progress, totalDuration) ==
  CASE handler = "images" -> imagesProgress(progress, totalDuration)
    [] handler = "effects" -> effectsProgress(progress, totalDuration)
    [] handler = "callback" -> createProgressCallback(progress, totalDuration)

\* the engine emits one progress event
Progress(tm, percent) ==
  /\ pHandler \in Handlers
  /\ Len(pReported) < MaxReports
  /\ pReported' = Append(pReported,
                         Reported(pHandler, [timemark |-> tm, percent |-> percent], pTotal))
  /\ UNCHANGED <<pHandler, pTotal, jvars, lvars, cvars, uvars, kvars>>


\* ------------------------------------------------------ audio concatenation
MaxInputs == 3
ClipDuration == 10
ProbeFallback == 60

\* a path of audioPaths: a file with content, a zero-length file, or no file
FileKinds == {"ok", "empty", "missing"}

ConcatInputs == UNION {[1..n -> FileKinds] : n \in 0..MaxInputs}

PartFile(i) == [name |-> "part.wav", i |-> i]
ListFile == [name |-> "files.txt", i |-> 0]

NoOutcome == [kind |-> "none", sourceFiles |-> 0, totalDuration |-> 0, message |-> ""]
Returned(n, d) == [kind |-> "returned", sourceFiles |-> n, totalDuration |-> d, message |-> ""]
Threw(m) == [kind |-> "threw", sourceFiles |-> 0, totalDuration |-> 0, message |-> m]

\* leaving the try block of lines 37-132: the finally block runs before the call ends
\* (Finally_OnlyOnReturn: a cleanup that a throw would skip instead)
Finally_OnlyOnReturn(outcome) ==
  /\ cOutcome' = outcome
  /\ IF outcome.kind = "threw"
     THEN cPc' = "done" /\ cResult' = outcome
     ELSE cPc' = "cleanup" /\ UNCHANGED cResult
Finally(outcome) ==
  /\ cOutcome' = outcome
  /\ cPc' = "cleanup"
  /\ UNCHANGED cResult

\* ending the call outside the try block
EndCall(outcome) ==
  /\ cPc' = "done"
  /\ cResult' = outcome
  /\ UNCHANGED cOutcome

\* lines 15-32: the argument check and the fileExists loop; one path goes to the
\* copy, several go to mkdtemp
ConcatValidate ==
  /\ cPc = "start"
  /\ IF Len(cInputs) = 0 THEN EndCall(Threw("No audio files provided"))
     ELSE IF \E i \in 1..Len(cInputs) : cInputs[i] = "missing"
          THEN EndCall(Threw("Audio file not found"))
     ELSE /\ cPc' = IF Len(cInputs) = 1 THEN "copying" ELSE "mkdtemp"
          /\ UNCHANGED <<cOutcome, cResult>>
  /\ UNCHANGED <<cInputs, cI, cTmpDir, cTmpFiles, cWav, cInFlight, cOutput,
                 jvars, lvars, pvars, uvars, kvars>>

\* (ConcatCopied_Transcodes: a single input sent through a conversion process instead)
ConcatCopied_Transcodes(ok) ==
  /\ cPc = "copying"
  /\ IF ok THEN /\ cOutput' = TRUE /\ cPc' = "probingCopy" /\ cWav' = <<PartFile(0)>>
                /\ UNCHANGED <<cOutcome, cResult>>
     ELSE EndCall(Threw("copyFile failed")) /\ UNCHANGED <<cOutput, cWav>>
  /\ UNCHANGED <<cInputs, cI, cTmpDir, cTmpFiles, cInFlight, jvars, lvars, pvars, uvars, kvars>>

\* line 27: copyFile has answered
ConcatCopied(ok) ==
  /\ cPc = "copying"
  /\ IF ok THEN cOutput' = TRUE /\ cPc' = "probingCopy" /\ UNCHANGED <<cOutcome, cResult>>
     ELSE EndCall(Threw("copyFile failed")) /\ UNCHANGED cOutput
  /\ UNCHANGED <<cInputs, cI, cTmpDir, cTmpFiles, cWav, cInFlight, jvars, lvars, pvars, uvars, kvars>>

\* lines 28-31: getAudioDuration of the copy has answered (its failure gives 60)
ConcatCopyProbed(ok) ==
  /\ cPc = "probingCopy"
  /\ (ok => cInputs[1] = "ok")
  /\ EndCall(Returned(1, IF ok THEN ClipDuration ELSE ProbeFallback))
  /\ UNCHANGED <<cInputs, cI, cTmpDir, cTmpFiles, cWav, cInFlight, cOutput,
                 jvars, lvars, pvars, uvars, kvars>>

\* line 34: mkdtemp has answered; then the first fsp.stat is awaited
ConcatMkdtemp(ok) ==
  /\ cPc = "mkdtemp"
  /\ IF ok THEN /\ cTmpDir' = TRUE /\ cI' = 0 /\ cPc' = "stat"
                /\ UNCHANGED <<cOutcome, cResult>>
     ELSE EndCall(Threw("mkdtemp failed")) /\ UNCHANGED <<cTmpDir, cI>>
  /\ UNCHANGED <<cInputs, cTmpFiles, cWav, cInFlight, cOutput, jvars, lvars, pvars, uvars, kvars>>

\* lines 41-67: stat of audioPaths[i] has answered; an empty file throws, otherwise
\* the conversion of this input is started
ConcatStat ==
  /\ cPc = "stat"
  /\ IF cInputs[cI + 1] # "ok"
     THEN Finally(Threw("Invalid or empty audio file")) /\ UNCHANGED cInFlight
     ELSE /\ cInFlight' = cInFlight + 1
          /\ cPc' = "converting"
          /\ UNCHANGED <<cOutcome, cResult>>
  /\ UNCHANGED <<cInputs, cI, cTmpDir, cTmpFiles, cWav, cOutput, jvars, lvars, pvars, uvars, kvars>>

\* (ConcatConverted_SkipsFailure: a loop that goes on to the next input after a
\* failed conversion instead)
ConcatConverted_SkipsFailure(ok, leftover) ==
  /\ cPc = "converting"
  /\ cInFlight' = cInFlight - 1
  /\ cTmpFiles' = IF ok \/ leftover THEN cTmpFiles \cup {PartFile(cI)} ELSE cTmpFiles
  /\ cWav' = IF ok THEN Append(cWav, PartFile(cI)) ELSE cWav
  /\ cI' = cI + 1
  /\ cPc' = IF cI + 1 < Len(cInputs) THEN "stat" ELSE "writeList"
  /\ UNCHANGED <<cOutcome, cResult>>
  /\ UNCHANGED <<cInputs, cTmpDir, cOutput, jvars, lvars, pvars, uvars, kvars>>

\* lines 62-69: the conversion has ended (ok) or failed (a failed one may leave its
\* output behind); after the last input the manifest is written
ConcatConverted(ok, leftover) ==
  /\ cPc = "converting"
  /\ cInFlight' = cInFlight - 1
  /\ IF ok
     THEN /\ cTmpFiles' = cTmpFiles \cup {PartFile(cI)}
          /\ cWav' = Append(cWav, PartFile(cI))
          /\ cI' = cI + 1
          /\ cPc' = IF cI + 1 < Len(cInputs) THEN "stat" ELSE "writeList"
          /\ UNCHANGED <<cOutcome, cResult>>
     ELSE /\ cTmpFiles' = IF leftover THEN cTmpFiles \cup {PartFile(cI)} ELSE cTmpFiles
          /\ Finally(Threw("conversion failed"))
          /\ UNCHANGED <<cWav, cI>>
  /\ UNCHANGED <<cInputs, cTmpDir, cOutput, jvars, lvars, pvars, uvars, kvars>>

\* lines 72-126: writeFile of the manifest has answered; then the concat pass is run
ConcatListWritten(ok) ==
  /\ cPc = "writeList"
  /\ IF ok
     THEN /\ cTmpFiles' = cTmpFiles \cup {ListFile}
          /\ cInFlight' = cInFlight + 1
          /\ cPc' = "concat"
          /\ UNCHANGED <<cOutcome, cResult>>
     ELSE Finally(Threw("writeFile failed")) /\ UNCHANGED <<cTmpFiles, cInFlight>>
  /\ UNCHANGED <<cInputs, cI, cTmpDir, cWav, cOutput, jvars, lvars, pvars, uvars, kvars>>

\* lines 121-131: the concat pass has ended or failed; then the output is probed
ConcatPassed(ok) ==
  /\ cPc = "concat"
  /\ cInFlight' = cInFlight - 1
  /\ IF ok THEN cOutput' = TRUE /\ cPc' = "probing" /\ UNCHANGED <<cOutcome, cResult>>
     ELSE Finally(Threw("concat failed")) /\ UNCHANGED cOutput
  /\ UNCHANGED <<cInputs, cI, cTmpDir, cTmpFiles, cWav, jvars, lvars, pvars, uvars, kvars>>

\* lines 129-132: getAudioDuration of the output has answered (its failure gives 60)
ConcatProbed(ok) ==
  /\ cPc = "probing"
  /\ Finally(Returned(Len(cInputs), IF ok THEN ClipDuration * Len(cInputs) ELSE ProbeFallback))
  /\ UNCHANGED <<cInputs, cI, cTmpDir, cTmpFiles, cWav, cInFlight, cOutput,
                 jvars, lvars, pvars, uvars, kvars>>

\* lines 133-139: fsp.rm(tmpDir, {recursive, force}) has answered; the call ends the
\* way the try block did
ConcatCleanup ==
  /\ cPc = "cleanup"
  /\ cTmpDir' = FALSE
  /\ cTmpFiles' = {}
  /\ cResult' = cOutcome
  /\ cPc' = "done"
  /\ UNCHANGED <<cInputs, cI, cWav, cInFlight, cOutput, cOutcome, jvars, lvars, pvars, uvars, kvars>>


\* ------------------------------------------------------ specifications
PipelineInit ==
  /\ req = [j \in Jobs |-> NoRequest]
  /\ pc = [j \in Jobs |-> "idle"]
  /\ audioDuration = [j \in Jobs |-> 0]
  /\ promise = [j \in Jobs |-> "none"]
  /\ eng = [j \in Jobs |-> "off"]
  /\ cmd = [j \in Jobs |-> NoCmd]
  /\ response = [j \in Jobs |-> NoResponse]
  /\ local = [j \in Jobs |-> <<>>]
  /\ estimates = [j \in Jobs |-> 0]
  /\ compiled = [j \in Jobs |-> 0]
  /\ runs = [j \in Jobs |-> 0]
  /\ wrote = [j \in Jobs |-> 0]
  /\ sent = [j \in Jobs |-> 0]
  /\ settles = [j \in Jobs |-> 0]
  /\ mappingsFile \in InitialFiles
  /\ initFile = mappingsFile
  /\ appendLog = <<>>
  /\ overlap = FALSE
  /\ listPc = "idle"
  /\ listResult = [kind |-> "none", mappings |-> <<>>]
  /\ listLog = <<>>
  /\ now = 1
  /\ mappingId = [j \in Jobs |-> 0]

ProgressOff == pHandler = "none" /\ pTotal = 0 /\ pReported = <<>>

ProgressInit == pHandler \in Handlers /\ pTotal \in TotalDurations /\ pReported = <<>>

UtilOff == uCall = "off" /\ uIn = <<>> /\ uOut = <<>>

ConcatOff ==
  /\ cInputs = <<>> /\ cPc = "off" /\ cI = 0 /\ cTmpDir = FALSE /\ cTmpFiles = {}
  /\ cWav = <<>> /\ cInFlight = 0 /\ cOutput = FALSE /\ cOutcome = NoOutcome
  /\ cResult = NoOutcome

ConcatInit ==
  /\ cInputs \in ConcatInputs /\ cPc = "start" /\ cI = 0 /\ cTmpDir = FALSE
  /\ cTmpFiles = {} /\ cWav = <<>> /\ cInFlight = 0 /\ cOutput = FALSE
  /\ cOutcome = NoOutcome /\ cResult = NoOutcome

\* what a job does once its request has arrived
JobStep(j) ==
  \/ InputsValidated(j)
  \/ EngineStart(j)
  \/ EngineProgress(j)
  \/ EngineEnd(j)
  \/ \E msg \in EngineErrors : EngineError(j, msg)
  \/ AppendExists(j)
  \/ AppendRead(j)
  \/ AppendWrite(j)

\* several jobs at once, each serving one of a few requests, ffprobe answering
Init == PipelineInit /\ ProgressOff /\ ConcatOff /\ UtilOff

Next ==
  \/ \E j \in Jobs, r \in LightRequests : generateVideo(j, r)
  \/ \E j \in Jobs, r \in LightRequests : generateVideoWithEffects(j, r)
  \/ \E j \in Jobs : DurationEstimated(j, TRUE)
  \/ \E j \in Jobs : JobStep(j)
  \/ ListExists
  \/ ListRead

Spec == Init /\ [][Next]_vars

\* one job, serving any request
JobNext ==
  \/ \E r \in Requests : generateVideo(1, r)
  \/ \E r \in Requests : generateVideoWithEffects(1, r)
  \/ \E probed \in BOOLEAN : DurationEstimated(1, probed)
  \/ JobStep(1)
  \/ ListExists
  \/ ListRead

JobSpec == Init /\ [][JobNext]_vars

\* one encode reporting progress through one of the handlers
ProgressSpecInit ==
  PipelineInit /\ mappingsFile = Absent /\ ProgressInit /\ ConcatOff /\ UtilOff

ProgressNext == \E tm \in Timemarks, percent \in EnginePercents : Progress(tm, percent)

ProgressSpec == ProgressSpecInit /\ [][ProgressNext]_vars

\* one call of concatenateAudioFiles
ConcatSpecInit ==
  PipelineInit /\ mappingsFile = Absent /\ ProgressOff /\ ConcatInit /\ UtilOff

ConcatNext ==
  \/ ConcatValidate
  \/ \E ok \in BOOLEAN : ConcatCopied(ok)
  \/ \E ok \in BOOLEAN : ConcatCopyProbed(ok)
  \/ \E ok \in BOOLEAN : ConcatMkdtemp(ok)
  \/ ConcatStat
  \/ \E ok \in BOOLEAN, leftover \in BOOLEAN : ConcatConverted(ok, leftover)
  \/ \E ok \in BOOLEAN : ConcatListWritten(ok)
  \/ \E ok \in BOOLEAN : ConcatPassed(ok)
  \/ \E ok \in BOOLEAN : ConcatProbed(ok)
  \/ ConcatCleanup

ConcatSpec == ConcatSpecInit /\ [][ConcatNext]_vars


\* ------------------------------------------------------ claims
Range(seq) == {seq[i] : i \in 1..Len(seq)}

IsPrefix(a, b) == Len(a) <= Len(b) /\ SubSeq(b, 1, Len(a)) = a

\* the entries listing would find in the ledger file
FileList == IF mappingsFile.kind = "json" THEN mappingsFile.val ELSE <<>>

\* the lifecycle state of a job's encode: pending once its inputs passed validation,
\* running once the command was run, then as its promise settled
Status(j) ==
  IF promise[j] = "fulfilled" THEN "succeeded"
  ELSE IF promise[j] = "rejected" THEN "failed"
  ELSE IF pc[j] = "encoding" THEN "running"
  ELSE IF pc[j] = "estimating" THEN "pending"
  ELSE "none"

\* C1: once all appends have completed, the ledger holds the entry of every job
\* that appended: no append overwrites or loses another job's entry.
C1_NoAppendLost ==
  (\A j \in Jobs : ~InAppend(j)) =>
    \A j \in Jobs : wrote[j] > 0 => Entry(j) \in Range(FileList)

\* C2: a ledger entry is written only after the encode succeeded: a job is inside
\* saveMappingInfo, or has written, only with its promise fulfilled; a job whose
\* promise was rejected has ended with an error answer, has written nothing and has
\* no entry in the file; a job that answered success has written its entry.
C2_EntryOnlyAfterSuccess ==
  \A j \in Jobs :
    /\ (InAppend(j) \/ wrote[j] > 0) => promise[j] = "fulfilled"
    /\ promise[j] = "rejected" =>
         /\ pc[j] = "done" /\ response[j].kind = "error" /\ wrote[j] = 0
         /\ \A e \in Range(FileList) : e.job # j
    /\ response[j].kind = "success" => wrote[j] = 1 /\ promise[j] = "fulfilled"

C2_Witness ==
  \E j, k \in Jobs :
    /\ promise[j] = "rejected" /\ pc[j] = "done"
    /\ response[k].kind = "success" /\ Entry(k) \in Range(FileList)

LifecycleSteps ==
  {<<"none", "pending">>, <<"pending", "running">>, <<"running", "succeeded">>,
   <<"running", "failed">>}

FailsValidation(r) ==
  \/ /\ r.path = "effects"
     /\ \/ \E f \in EffectFields :
             r.effects[f] # Unset /\ r.effects[f] \notin getAvailableEffects[f]
        \/ r.effects.preset # Unset /\ r.effects.preset \notin PresetNames
  \/ /\ r.path # "none"
     /\ (~r.imagesExist \/ ~r.audioExists \/ r.nImages = 0)

\* C4: a request that fails validation is answered with a validation error, and on
\* that path no duration estimate is taken, no filter graph is compiled, no encode
\* is started and no ledger entry is written.
C4_InvalidRequestStopsAtValidation ==
  \A j \in Jobs :
    FailsValidation(req[j]) =>
      /\ estimates[j] = 0 /\ compiled[j] = 0 /\ runs[j] = 0 /\ wrote[j] = 0
      /\ pc[j] = "done" => response[j] = validationError

\* C5: every encode that is started, on either route, maps the one video label and
\* the one audio stream and carries -shortest.
C5_EveryEncodeUsesShortest ==
  \A j \in Jobs :
    runs[j] > 0 =>
      cmd[j].video = {"outv"} /\ Cardinality(cmd[j].audio) = 1 /\ cmd[j].shortest

\* C6: every progress value reported lies in 0..100 percent.
C6_ProgressWithinRange ==
  \A i \in 1..Len(pReported) :
    pReported[i].t = "number" /\ pReported[i].v >= 0 /\ pReported[i].v <= 100

\* C7: the progress values reported for one job never decrease.
C7_ProgressNeverDecreases ==
  \A i, k \in 1..Len(pReported) :
    (i < k /\ pReported[i].t = "number" /\ pReported[k].t = "number")
      => pReported[i].v <= pReported[k].v

\* C8: a job that passed validation starts exactly one encode, however many images
\* it has (none before validation, never a second one), and when the engine fails
\* the job answers once, with an error carrying the engine's text, and starts no
\* other encode.
C8_OneEncodePerJob ==
  \A j \in Jobs :
    /\ runs[j] <= 1
    /\ runs[j] > 0 => estimates[j] = 1
    /\ (estimates[j] > 0 /\ pc[j] # "estimating") => runs[j] = 1
    /\ promise[j] = "rejected" =>
         /\ response[j].kind = "error" /\ sent[j] = 1 /\ runs[j] = 1
         /\ \E m \in EngineErrors : m \in Range(response[j].originalError)

C8_Witness ==
  \E j \in Jobs :
    /\ req[j].nImages > 1 /\ promise[j] = "rejected" /\ eng[j] = "errored"
    /\ response[j].kind = "error" /\ runs[j] = 1

C10_SequentialAppends ==
  /\ []((initFile = Absent /\ ~overlap) =>
          /\ FileList = appendLog
          /\ listPc = "done" => listResult = [kind |-> "success", mappings |-> listLog])
  /\ []((initFile = Absent /\ listPc = "done" /\ listLog = <<>>) =>
          listResult = [kind |-> "success", mappings |-> <<>>])
  /\ [][~overlap' => IsPrefix(FileList, FileList')]_vars

C10_Witness ==
  /\ initFile = Absent /\ ~overlap /\ Len(appendLog) = NumJobs
  /\ listPc = "done" /\ listResult.mappings = appendLog /\ FileList = appendLog

C12_ListAbsentOrEmpty ==
  (listPc = "done" /\ listLog = <<>> /\ initFile \in {Absent, EmptyText}) =>
    listResult = [kind |-> "success", mappings |-> <<>>]


\* ------------------------------------------------------ duration estimate
MaxCalls == 2

\* what the sources of a duration would give for one audio path (0: nothing): the
\* metadata of ffprobe, the "Duration:" line in the stderr of a discarded encode pass,
\* an estimate from the size of the file; a path without a file gives nothing anywhere
AudioFacts ==
  {[exists |-> TRUE, probe |-> a, text |-> b, size |-> c] :
     a \in {0, ProbedDuration}, b \in {0, 45}, c \in {0, 20}}
  \cup {[exists |-> FALSE, probe |-> 0, text |-> 0, size |-> 0]}

Fallbacks == {10, 30, FallbackDuration}

EstimateInputs == {[audio |-> a, fallbackDuration |-> f] : a \in AudioFacts, f \in Fallbacks}

\* VideoUtils.estimateAudioDuration: err || !metadata?.format?.duration gives the fallback
estimateAudioDuration(audio, fallbackDuration) ==
  IF audio.probe = 0 THEN fallbackDuration ELSE audio.probe

\* VideoUtils.estimateAudioDuration, the variant that reads the stderr of an encode
\* pass to the null format: no file gives the fallback; on "end" or "error" the
\* duration found, if any, otherwise the fallback
estimateAudioDurationEncodePass(audio, fallbackDuration) ==
  IF ~audio.exists THEN fallbackDuration
  ELSE IF audio.text # 0 THEN audio.text
  ELSE fallbackDuration

Estimators == {"estimateAudioDuration", "estimateAudioDurationEncodePass"}

\* the callback of ffprobe has run and the promise is resolved
EstimateProbed ==
  /\ uCall = "estimateAudioDuration"
  /\ Len(uOut) < MaxCalls
  /\ uOut' = Append(uOut, estimateAudioDuration(uIn.audio, uIn.fallbackDuration))
  /\ UNCHANGED <<uCall, uIn, jvars, lvars, pvars, cvars, kvars>>

\* the encode pass has ended or failed (or was not started) and the promise is resolved
EstimateEncodePassed ==
  /\ uCall = "estimateAudioDurationEncodePass"
  /\ Len(uOut) < MaxCalls
  /\ uOut' = Append(uOut, estimateAudioDurationEncodePass(uIn.audio, uIn.fallbackDuration))
  /\ UNCHANGED <<uCall, uIn, jvars, lvars, pvars, cvars, kvars>>

PipelineOff == PipelineInit /\ mappingsFile = Absent

\* calls of the estimator on one audio path
EstimateSpecInit ==
  /\ PipelineOff /\ ProgressOff /\ ConcatOff
  /\ uCall \in Estimators /\ uIn \in EstimateInputs /\ uOut = <<>>

EstimateNext == EstimateProbed \/ EstimateEncodePassed

EstimateSpec == EstimateSpecInit /\ [][EstimateNext]_vars

\* the first source of the order probe, stderr text, file size that gives a duration,
\* otherwise the fallback
FirstTier(in) ==
  IF in.audio.probe # 0 THEN in.audio.probe
  ELSE IF in.audio.text # 0 THEN in.audio.text
  ELSE IF in.audio.size # 0 THEN in.audio.size
  ELSE in.fallbackDuration

\* C13: every call of the estimator returns the value of the first source, in the
\* order probe, stderr text of a discarded encode pass, file size, that gives a
\* duration, and the caller's fallback when none does, also on a repeated call.
C13_FirstTierWins ==
  \A i \in 1..Len(uOut) : uCall \in Estimators => uOut[i] = FirstTier(uIn)


\* ------------------------------------------------------ effect options on their own
\* effects objects a client can send: each key absent or with a value, in or out of
\* its list
EffectSpecs ==
  {[transition |-> t, motion |-> m, color |-> c, overlay |-> o,
    transitionDuration |-> d, preset |-> p, description |-> Unset, extra |-> x] :
     t \in {Unset, "", "fade", "spin"}, m \in {Unset, "zoom_in", "spin"},
     c \in {Unset, "sepia", "neon"}, o \in {Unset, "bokeh", "fog"},
     d \in {Unset, "1.5"}, p \in {Unset, "cinematic", "modern", "retro", "constructor"},
     x \in {Unset, "sparkle"}}

\* the call applyPreset(name): the throw of lines 302-304, or the object returned
applyPresetCall(name) ==
  IF PresetLookup(name)
  THEN [threw |-> FALSE, value |-> applyPreset(name)]
  ELSE [threw |-> TRUE, value |-> NoEffects]

UtilCalls == {"validateEffects", "applyPreset", "resolve"}

\* VideoEffectsUtils.validateEffects(effects) returns
ValidateEffectsCalled ==
  /\ uCall = "validateEffects" /\ uOut = <<>>
  /\ LET errors == validateEffects(uIn)
     IN  uOut' = <<[isValid |-> errors = {}, errors |-> errors]>>
  /\ UNCHANGED <<uCall, uIn, jvars, lvars, pvars, cvars, kvars>>

\* VideoEffectsUtils.applyPreset(effects.preset) returns or throws
ApplyPresetCalled ==
  /\ uCall = "applyPreset" /\ uOut = <<>>
  /\ uOut' = <<applyPresetCall(uIn.preset)>>
  /\ UNCHANGED <<uCall, uIn, jvars, lvars, pvars, cvars, kvars>>

\* generateVideoWithEffects, lines 367-382: the validation error, or finalEffects
EffectsResolved ==
  /\ uCall = "resolve" /\ uOut = <<>>
  /\ uOut' = IF validateEffects(uIn) # {}
             THEN <<[kind |-> "validationError", effects |-> NoEffects]>>
             ELSE <<[kind |-> "resolved", effects |-> ResolveEffects(uIn)]>>
  /\ UNCHANGED <<uCall, uIn, jvars, lvars, pvars, cvars, kvars>>

EffectsSpecInit ==
  /\ PipelineOff /\ ProgressOff /\ ConcatOff
  /\ uCall \in UtilCalls /\ uIn \in EffectSpecs /\ uOut = <<>>

EffectsNext == ValidateEffectsCalled \/ ApplyPresetCalled \/ EffectsResolved

EffectsSpec == EffectsSpecInit /\ [][EffectsNext]_vars

\* every present effect field is in its list and a present preset name is a preset
InCatalog(e) ==
  /\ \A f \in EffectFields : e[f] # Unset => e[f] \in getAvailableEffects[f]
  /\ e.preset # Unset => e.preset \in PresetNames

\* C14: validateEffects answers isValid = true exactly when every present field of
\* transition, motion, color and overlay is in its list and a present preset name is a
\* preset of the registry; with isValid = false the errors are not empty.
C14_ValidIffInCatalog ==
  (uCall = "validateEffects" /\ uOut # <<>>) =>
    /\ uOut[1].isValid <=> InCatalog(uIn)
    /\ ~uOut[1].isValid => uOut[1].errors # {}

\* C15: a request whose effects object has a key outside transition, motion, color,
\* overlay, transitionDuration and preset is answered with a validation error and
\* compiles nothing and writes no ledger entry.
C15_UnknownKeyRejected ==
  \A j \in Jobs :
    (req[j].path = "effects" /\ req[j].effects.extra # Unset) =>
      /\ compiled[j] = 0 /\ runs[j] = 0 /\ wrote[j] = 0
      /\ pc[j] = "done" => response[j] = validationError

\* C16: applyPreset(name) throws for every name that is no preset of the registry,
\* and for a preset of the registry returns its transition, motion, color and overlay
\* with transitionDuration 0.8.
C16_ApplyPresetKnownNamesOnly ==
  (uCall = "applyPreset" /\ uOut # <<>>) =>
    IF uIn.preset \in PresetNames
    THEN /\ ~uOut[1].threw
         /\ \A f \in EffectFields :
              uOut[1].value[f] = VIDEO_EFFECT_PRESETS[uIn.preset][f]
         /\ uOut[1].value.transitionDuration = "0.8"
    ELSE uOut[1].threw

MergedFields == EffectFields \cup {"transitionDuration"}

\* C17: in the merge of a registry preset with the effects sent, each of transition,
\* motion, color, overlay and transitionDuration has the caller's value where the
\* caller set it and the preset's value (0.8 for transitionDuration) where not.
C17_CallerFieldsWin ==
  (uCall = "resolve" /\ uOut # <<>> /\ uIn.preset \in PresetNames
     /\ uOut[1].kind = "resolved") =>
    \A f \in MergedFields :
      uOut[1].effects[f] =
        IF uIn[f] # Unset THEN uIn[f]
        ELSE IF f = "transitionDuration" THEN "0.8"
        ELSE VIDEO_EFFECT_PRESETS[uIn.preset][f]

C17_Witness ==
  /\ uCall = "resolve" /\ uOut # <<>> /\ uIn.preset = "modern"
  /\ uIn.color = "sepia" /\ uIn.transition = Unset /\ uIn.transitionDuration = "1.5"
  /\ uOut[1].kind = "resolved"
  /\ uOut[1].effects.color = "sepia" /\ uOut[1].effects.transition = "crossfade"
  /\ uOut[1].effects.transitionDuration = "1.5"

\* C18: a request naming only a registry preset resolves to exactly that preset's
\* transition, motion, color and overlay with transitionDuration 0.8 and no other
\* field (for cinematic: fade, kenburns, vintage, light_leaks, 0.8).
C18_PresetOnlyResolvesExactly ==
  (uCall = "resolve" /\ uOut # <<>> /\ uIn.preset \in PresetNames
     /\ uIn = [NoEffects EXCEPT !.preset = uIn.preset]) =>
    /\ uOut[1].kind = "resolved"
    /\ uOut[1].effects =
         [NoEffects EXCEPT !.transition = VIDEO_EFFECT_PRESETS[uIn.preset].transition,
                           !.motion = VIDEO_EFFECT_PRESETS[uIn.preset].motion,
                           !.color = VIDEO_EFFECT_PRESETS[uIn.preset].color,
                           !.overlay = VIDEO_EFFECT_PRESETS[uIn.preset].overlay,
                           !.transitionDuration = "0.8"]

MaxParts == 3

PartValues == {Part(0), Part(1), Part(30), NotANumber}

\* parseTimemark's argument: undefined, a value that is no text, or a text of up to
\* MaxParts colon-separated parts
TimemarkInputs ==
  {TmUndefined, [kind |-> "number", parts |-> <<>>]}
    \cup {Tm(parts) : parts \in UNION {[1..n -> PartValues] : n \in 0..MaxParts}}

\* VideoUtils.parseTimemark(timemark) returns
TimemarkParsed ==
  /\ uCall = "parseTimemark" /\ uOut = <<>>
  /\ uOut' = <<parseTimemark(uIn)>>
  /\ UNCHANGED <<uCall, uIn, jvars, lvars, pvars, cvars, kvars>>

TimemarkSpecInit ==
  /\ PipelineOff /\ ProgressOff /\ ConcatOff
  /\ uCall = "parseTimemark" /\ uIn \in TimemarkInputs /\ uOut = <<>>

TimemarkNext == TimemarkParsed

TimemarkSpec == TimemarkSpecInit /\ [][TimemarkNext]_vars

\* a text of three parts that are all number texts
WellFormed(tm) ==
  tm.kind = "string" /\ Len(tm.parts) = 3 /\ \A i \in 1..3 : tm.parts[i].num

\* C20: the timecode parser returns hours * 3600 + minutes * 60 + seconds for a
\* well-formed text and 0 for every other argument (no text, empty text, a wrong
\* number of parts, a part that is no number).
C20_ParserTotalZeroOnMalformed ==
  (uCall = "parseTimemark" /\ uOut # <<>>) =>
    uOut[1] = IF WellFormed(uIn)
              THEN uIn.parts[1].v * 3600 + uIn.parts[2].v * 60 + uIn.parts[3].v
              ELSE 0


\* ------------------------------------------------------ claims on the concatenation
\* C21: a concatenate whose list is empty, or has a path without a file, or has a
\* zero-length file, throws and leaves no output file, for one input as for several.
C21_BadInputRejected ==
  (cPc = "done" /\ (cInputs = <<>> \/ \E i \in 1..Len(cInputs) : cInputs[i] # "ok")) =>
    (cResult.kind = "threw" /\ ~cOutput)

C27_SequentialConversions ==
  /\ cInFlight <= 1
  /\ cPc = "converting" => cInFlight = 1
  /\ cWav = [i \in 1..Len(cWav) |-> PartFile(i - 1)]
  /\ cPc \in {"stat", "converting"} => Len(cWav) = cI
  /\ (cPc \in {"writeList", "concat", "probing"} \/ (Len(cInputs) > 1 /\ cOutput)) =>
       /\ Len(cWav) = Len(cInputs)
       /\ \A i \in 1..Len(cInputs) : cInputs[i] = "ok"
  /\ (cPc = "done" /\ cResult.message = "conversion failed") => ~cOutput

C27_Witness ==
  /\ cPc = "concat" /\ Len(cInputs) = MaxInputs /\ cInFlight = 1
  /\ cWav = [i \in 1..MaxInputs |-> PartFile(i - 1)]


\* ------------------------------------------------------ size-based duration estimate
MaxSizeSteps == 130

estimatedBitrate == 128000

Max(a, b) == IF a > b THEN a ELSE b

\* the audio file as statSync finds it: its size in bytes, or no file to stat
SizeInputs ==
  {[readable |-> TRUE, size |-> k * 10000] : k \in 0..MaxSizeSteps}
    \cup {[readable |-> FALSE, size |-> 0]}

\* (getAudioDuration_Unclamped: the raw estimate without the window of line 522)
getAudioDuration_Unclamped(file) ==
  IF ~file.readable THEN 10 * estimatedBitrate ELSE file.size * 8

\* VideoController.getAudioDuration, in units of 1/estimatedBitrate second so that the
\* division of line 515 stays exact: Math.max(5, Math.min(60, size * 8 / bitrate)),
\* or the 10 of the catch
getAudioDuration(file) ==
  IF ~file.readable THEN 10 * estimatedBitrate
  ELSE Max(5 * estimatedBitrate, Min(60 * estimatedBitrate, file.size * 8))

\* getAudioDuration(audioPath) resolves
SizeEstimated ==
  /\ uCall = "getAudioDuration" /\ uOut = <<>>
  /\ uOut' = <<getAudioDuration(uIn)>>
  /\ UNCHANGED <<uCall, uIn, jvars, lvars, pvars, cvars, kvars>>

SizeSpecInit ==
  /\ PipelineOff /\ ProgressOff /\ ConcatOff
  /\ uCall = "getAudioDuration" /\ uIn \in SizeInputs /\ uOut = <<>>

SizeNext == SizeEstimated

SizeSpec == SizeSpecInit /\ [][SizeNext]_vars

\* C23: the size-based estimate lies within 5..60 seconds for every file; for a file
\* that can be read it is size * 8 / 128000 seconds where that lies in the window, 5
\* below it and 60 above it; 1,280,000 bytes give 60.
C23_SizeEstimateClamped ==
  (uCall = "getAudioDuration" /\ uOut # <<>>) =>
    /\ uOut[1] >= 5 * 128000 /\ uOut[1] <= 60 * 128000
    /\ uIn.readable =>
         uOut[1] = IF uIn.size * 8 < 5 * 128000 THEN 5 * 128000
                   ELSE IF uIn.size * 8 > 60 * 128000 THEN 60 * 128000
                   ELSE uIn.size * 8
    /\ (uIn.readable /\ uIn.size = 1280000) => uOut[1] = 60 * 128000

C23_Witness ==
  /\ uCall = "getAudioDuration" /\ uIn.readable /\ uIn.size = 1280000
  /\ uOut = <<60 * 128000>>


\* ------------------------------------------------------------------ filter graphs
MaxDurationSteps == 6

\* VIDEO_CONFIG_DEFAULTS.fps, the rate of the effects route's zoompan and of its -r
configFps == 30

\* the rate written into createVideoWithImages: zoompan fps=25 and -r 25
legacyFps == 25

\* Math.ceil(p / q), q > 0
MathCeil(p, q) == (p + q - 1) \div q

\* the stream labels of a filter graph: [i:v], [v{i}scaled], [v{i}], [outv]
InputLabel(i) == [l |-> "in", i |-> i]
ScaledLabel(i) == [l |-> "scaled", i |-> i]
SegmentLabel(i) == [l |-> "v", i |-> i]
Outv == [l |-> "outv", i |-> 0]

\* one labelled chain of a filter graph: the filters it applies in order, the labels
\* it reads, the label it writes, and for a zoompan its motion and its d= frame count
Operation(filters, ins, out, motion, frames) ==
  [filters |-> filters, ins |-> ins, out |-> out, motion |-> motion, frames |-> frames]

\* audio durations in hundredths of a second
GraphDurations ==
  {101 * k : k \in 1..MaxDurationSteps} \cup {1000 * k : k \in 1..MaxDurationSteps}

\* the resolved effects of the requests that pass validateEffects
GraphEffects == {ResolveEffects(e) : e \in {x \in EffectInputs : validateEffects(x) = {}}}

GraphInputs ==
  {[n |-> n, duration |-> d, effects |-> e] :
     n \in 1..MaxImages, d \in GraphDurations, e \in GraphEffects}

\* the fade filters appended to the chain of image index when there are several images
SegmentFades(n, index) ==
  IF n <= 1 THEN <<>>
  ELSE IF index = 0 THEN <<"fade_out">>
  ELSE IF index = n - 1 THEN <<"fade_in">>
  ELSE <<"fade_in", "fade_out">>

\* (inputLabels_Reversed: the segment labels joined last to first)
inputLabels_Reversed(n) == [k \in 1..n |-> SegmentLabel(n - k)]

\* [v0]...[v{n-1}]: inputLabels of createVideoWithImages, concatInputs of
\* createVideoWithEffects
inputLabels(n) == [k \in 1..n |-> SegmentLabel(k - 1)]

\* VideoEffectsUtils.createVideoWithEffects for n images and an audio of `duration`
\* hundredths: the inputs in the order they are added, the filter chains, the label
\* handed to complexFilter as the video map, the -map n:a and the -r. The zoom
\* expression z='1+(0.4*on/N)' is the catalog's zoom_in; `effects` is never read.
createVideoWithEffects(n, duration, effects) ==
  [inputs |-> [k \in 1..(n + 1) |-> IF k <= n THEN "image" ELSE "audio"],
   ops |-> [k \in 1..n |->
              Operation(<<"scalecrop", "zoompan">> \o SegmentFades(n, k - 1),
                        <<InputLabel(k - 1)>>, SegmentLabel(k - 1), "zoom_in",
                        MathRound(duration * configFps, 100 * n))]
           \o <<IF n = 1
                THEN Operation(<<"copy">>, <<SegmentLabel(0)>>, Outv, "none", 0)
                ELSE Operation(<<"concat">>, inputLabels(n), Outv, "none", 0)>>,
   video |-> Outv, audio |-> n, r |-> configFps]

\* VideoController.createVideoWithImages for n images and durationPerImage =
\* duration / n: per image a scale-crop chain into [v{i}scaled] and a zoompan chain
\* (z='min(zoom+0.0015,1.5)', the Ken Burns zoom) into [v{i}], then the concat
createVideoWithImages(n, duration) ==
  [inputs |-> [k \in 1..(n + 1) |-> IF k <= n THEN "image" ELSE "audio"],
   ops |-> [k \in 1..(2 * n) |->
              LET index == (k - 1) \div 2
              IN  IF k % 2 = 1
                  THEN Operation(<<"scalecrop">>, <<InputLabel(index)>>,
                                 ScaledLabel(index), "none", 0)
                  ELSE Operation(<<"zoompan">>, <<ScaledLabel(index)>>,
                                 SegmentLabel(index), "kenburns",
                                 MathCeil(duration * legacyFps, 100 * n))]
           \o <<Operation(<<"concat">>, inputLabels(n), Outv, "none", 0)>>,
   video |-> Outv, audio |-> n, r |-> legacyFps]

\* the xfade transition of each entry of generateTransitionFilter's effectMap
effectMap ==
  [fade |-> "fade", crossfade |-> "fadeblack", wipeleft |-> "wipeleft",
   wiperight |-> "wiperight", wipeup |-> "wipeup", wipedown |-> "wipedown",
   slideup |-> "slideup", slidedown |-> "slidedown", slideleft |-> "slideleft",
   slideright |-> "slideright", circlecrop |-> "circlecrop", dissolve |-> "dissolve"]

\* generateTransitionFilter: effectMap[transitionType] || effectMap.fade
generateTransitionFilter(fromIndex, toIndex, transitionType) ==
  [ins |-> <<SegmentLabel(fromIndex), SegmentLabel(toIndex)>>,
   xfade |-> IF transitionType \in DOMAIN effectMap THEN effectMap[transitionType]
             ELSE effectMap.fade,
   out |-> [l |-> "trans", i |-> toIndex]]

TransitionInputs ==
  {[fromIndex |-> i, toIndex |-> i + 1, transition |-> t] :
     i \in 0..(MaxImages - 1), t \in VIDEO_TRANSITIONS \cup {"spin"}}

\* createVideoWithEffects(...) returns its command
EffectsGraphCompiled ==
  /\ uCall = "createVideoWithEffects" /\ uOut = <<>>
  /\ uOut' = <<createVideoWithEffects(uIn.n, uIn.duration, uIn.effects)>>
  /\ UNCHANGED <<uCall, uIn, jvars, lvars, pvars, cvars, kvars>>

\* createVideoWithImages(...) has built its command
ImagesGraphCompiled ==
  /\ uCall = "createVideoWithImages" /\ uOut = <<>>
  /\ uOut' = <<createVideoWithImages(uIn.n, uIn.duration)>>
  /\ UNCHANGED <<uCall, uIn, jvars, lvars, pvars, cvars, kvars>>

\* generateTransitionFilter(from, to, type) returns
TransitionFilterGenerated ==
  /\ uCall = "generateTransitionFilter" /\ uOut = <<>>
  /\ uOut' = <<generateTransitionFilter(uIn.fromIndex, uIn.toIndex, uIn.transition)>>
  /\ UNCHANGED <<uCall, uIn, jvars, lvars, pvars, cvars, kvars>>

GraphSpecInit ==
  /\ PipelineOff /\ ProgressOff /\ ConcatOff
  /\ uOut = <<>>
  /\ \/ uCall = "createVideoWithEffects" /\ uIn \in GraphInputs
     \/ uCall = "createVideoWithImages" /\ uIn \in {g \in GraphInputs : g.effects = NoEffects}
     \/ uCall = "generateTransitionFilter" /\ uIn \in TransitionInputs

GraphNext == EffectsGraphCompiled \/ ImagesGraphCompiled \/ TransitionFilterGenerated

GraphSpec == GraphSpecInit /\ [][GraphNext]_vars

\* the number of chains of graph g that apply filter f
CountOps(g, f) ==
  Cardinality({k \in 1..Len(g.ops) : \E x \in 1..Len(g.ops[k].filters) : g.ops[k].filters[x] = f})

\* the chains of graph g that apply a zoompan
MotionOps(g) ==
  {k \in 1..Len(g.ops) : \E x \in 1..Len(g.ops[k].filters) : g.ops[k].filters[x] = "zoompan"}

\* C24: the graph compiled for resolved effects has one zoompan per image whose motion
\* is the selected one (static when none is selected), a transition blend between each
\* adjacent pair exactly when a transition is set, a colour and an overlay operation
\* exactly when a colour and an overlay are set, and with no effects at all nothing but
\* scale-crop, static motion and the concatenation.
C24_GraphReflectsEffects ==
  (uCall = "createVideoWithEffects" /\ uOut # <<>>) =>
    LET g == uOut[1]
        e == uIn.effects
    IN  /\ Cardinality(MotionOps(g)) = uIn.n
        /\ \A k \in MotionOps(g) :
             g.ops[k].motion = IF Truthy(e.motion) THEN e.motion ELSE "static"
        /\ CountOps(g, "xfade") = IF Truthy(e.transition) THEN uIn.n - 1 ELSE 0
        /\ CountOps(g, "color") > 0 <=> Truthy(e.color)
        /\ CountOps(g, "overlay") > 0 <=> Truthy(e.overlay)
        /\ (\A f \in EffectFields : ~Truthy(e[f])) =>
             \A k \in 1..Len(g.ops) : \A x \in 1..Len(g.ops[k].filters) :
               g.ops[k].filters[x] \in {"scalecrop", "zoompan", "concat", "copy"}

\* C25: every zoompan of a compiled graph lasts ceil(segmentDuration * fps) frames,
\* where segmentDuration is the audio duration divided by the number of images and
\* fps is the frame rate the encode runs at.
C25_FramesAreCeiling ==
  (uCall \in {"createVideoWithEffects", "createVideoWithImages"} /\ uOut # <<>>) =>
    \A k \in MotionOps(uOut[1]) :
      LET frames == uOut[1].ops[k].frames
          p == uIn.duration * uOut[1].r
          q == 100 * uIn.n
      IN  frames * q >= p /\ (frames - 1) * q < p

\* the segment labels that chain k of graph g reads, as (chain, position) pairs
Reads(g, label) ==
  {<<k, x>> \in (1..Len(g.ops)) \X (1..(MaxImages + 1)) :
     x <= Len(g.ops[k].ins) /\ g.ops[k].ins[x] = label}

\* C26: for n >= 1 images the compiled graph has exactly one chain that writes outv,
\* which is the label mapped as video; each of v0..v(n-1) is written by exactly one
\* chain and read exactly once, by the chain that writes outv, which reads them in
\* index order (a concat, or the copy when n = 1); the inputs are the n images followed
\* by the audio, and the audio is mapped from input index n.
C26_GraphWellFormed ==
  (uCall \in {"createVideoWithEffects", "createVideoWithImages"} /\ uOut # <<>>) =>
    LET g == uOut[1]
        n == uIn.n
        joins == {k \in 1..Len(g.ops) : g.ops[k].out = Outv}
    IN  /\ Cardinality(joins) = 1
        /\ g.video = Outv
        /\ \A i \in 0..(n - 1) :
             /\ Cardinality({k \in 1..Len(g.ops) : g.ops[k].out = SegmentLabel(i)}) = 1
             /\ Cardinality(Reads(g, SegmentLabel(i))) = 1
             /\ \A k \in joins : <<k, i + 1>> \in Reads(g, SegmentLabel(i))
        /\ \A k \in joins :
             /\ Len(g.ops[k].ins) = n
             /\ g.ops[k].filters \in {<<"concat">>, <<"copy">>}
             /\ g.ops[k].filters = <<"copy">> => n = 1
        /\ Len(g.inputs) = n + 1
        /\ \A k \in 1..n : g.inputs[k] = "image"
        /\ g.inputs[n + 1] = "audio"
        /\ g.audio = n

C26_Witness ==
  /\ uCall = "createVideoWithEffects" /\ uIn.n = 2 /\ uOut # <<>>
  /\ uOut[1].ops[3].filters = <<"concat">>
  /\ uOut[1].ops[3].ins = <<SegmentLabel(0), SegmentLabel(1)>>

\* C28: every transition the catalog lists, and so validateEffects accepts, has its own
\* blend in generateTransitionFilter: the fade blend is produced only for the request
\* of fade itself or for a name validation rejects.
C28_CatalogTransitionsHaveOwnBlend ==
  (uCall = "generateTransitionFilter" /\ uOut # <<>>) =>
    (uOut[1].xfade = "fade" =>
       \/ uIn.transition = "fade"
       \/ validateEffects([NoEffects EXCEPT !.transition = uIn.transition]) # {})

\* C29: the segments joined by the concatenation cover the audio: the frame counts of
\* the n zoompans add up to at least T * fps, for every duration T > 0 and n >= 1.
C29_FramesCoverAudio ==
  (uCall \in {"createVideoWithEffects", "createVideoWithImages"} /\ uOut # <<>>) =>
    \A k \in MotionOps(uOut[1]) :
      uIn.n * uOut[1].ops[k].frames * 100 >= uIn.duration * uOut[1].r


\* ------------------------------------------------------------------ ledger ids
MaxClock == 3

\* a millisecond passes
Tick ==
  /\ now < MaxClock
  /\ now' = now + 1
  /\ UNCHANGED <<mappingId, jvars, lvars, pvars, cvars, uvars>>

\* requests that reach the ledger: one of each route, with good files
IdRequests ==
  {Request("plain", NoEffects, MaxImages, TRUE, TRUE),
   Request("effects", NoEffects, MaxImages, TRUE, TRUE)}

\* several jobs at once while the clock runs
IdNext ==
  \/ \E j \in Jobs, r \in IdRequests : generateVideo(j, r)
  \/ \E j \in Jobs, r \in IdRequests : generateVideoWithEffects(j, r)
  \/ \E j \in Jobs : DurationEstimated(j, TRUE)
  \/ \E j \in Jobs : JobStep(j)
  \/ Tick

IdSpec == Init /\ [][IdNext]_vars

\* C30: any two entries of the ledger that distinct jobs wrote carry distinct ids,
\* also when the two jobs finished encoding at the same reading of the clock.
C30_EntryIdsUnique ==
  mappingsFile.kind = "json" =>
    \A a, b \in 1..Len(mappingsFile.val) :
      mappingsFile.val[a].job # mappingsFile.val[b].job =>
        mappingsFile.val[a].id # mappingsFile.val[b].id

====
